---- MODULE Spec2Model ----
(***************************************************************************)
(* A model of the client-bound object layer of interactions.py:           *)
(*   - Member (src/interactions/api/models/member.py): schema, computed   *)
(*     properties and the asynchronous action methods;                    *)
(*   - Invite (src/interactions/models/discord/invite.py): schema,        *)
(*     cache-resolved properties and delete;                              *)
(*   - the Component family (src/interactions/models/component.py).       *)
(*                                                                         *)
(* Python values are records carrying their type in the field t, so that  *)
(* None, the MISSING sentinel, strings, booleans, integers, lists, dicts  *)
(* and objects can be compared with one another as Python compares them.  *)
(***************************************************************************)
EXTENDS Integers, Sequences, FiniteSets, TLC

VARIABLES
    member,     \* the Member instance the action methods are called on
    invite,     \* the Invite instance
    tasks,      \* one record per coroutine: where it is in its method
    started,    \* number of action-method calls started so far
    ncalls,     \* number of transport methods invoked so far
    lastBuilt,  \* history: the Member built from the last response modify accepted
    cache,      \* the client's entity cache: [channels, users], sets of ids
    ctx,        \* the client reference the instances were constructed with
    input,      \* the arguments of the pure operation under study
    output      \* what that operation produced

vars == <<member, invite, tasks, started, ncalls, lastBuilt, cache, ctx, input, output>>

---------------------------------------------------------------------------
(* Python values *)

None == [t |-> "NoneType"]
MISSING == [t |-> "MISSING"]
Str(s) == [t |-> "str", v |-> s]
Bool(b) == [t |-> "bool", v |-> b]
PyInt(n) == [t |-> "int", v |-> n]
List(s) == [t |-> "list", v |-> s]
Dict(f) == [t |-> "dict", v |-> f]

EmptyDict == Dict(<<>>)

\* Python truthiness: bool(x) is False.
Falsy(x) ==
    \/ x = None
    \/ x = Str("")
    \/ x = Bool(FALSE)
    \/ x = PyInt(0)
    \/ x = List(<<>>)
    \/ x = EmptyDict

\* A raised exception.
Exc(type, msg) == [t |-> "exception", type |-> type, msg |-> msg]

\* Dereferencing an attribute of None.
NoneAttr(attr) == Exc("AttributeError", "'NoneType' object has no attribute " \o attr)

\* The explicit guard of the action methods.
MissingContext == Exc("AttributeError", "HTTPClient not found!")

Ok(obj) == [ok |-> TRUE, obj |-> obj]
Fail(exc) == [ok |-> FALSE, exc |-> exc]

\* The client/session an object is bound to.
TheClient == [t |-> "Client", name |-> "bot"]
Clients == {None, TheClient}

---------------------------------------------------------------------------
(* Conversion utilities *)

\* int() of a decimal identifier string.
DecimalValue == ("7" :> 7) @@ ("8" :> 8) @@ ("20" :> 20) @@ ("21" :> 21) @@ ("30" :> 30)

\* snowflake(value): an integer or a numeric string becomes one identifier type.
to_snowflake(value) ==
    IF value.t = "Snowflake" THEN Ok(value)
    ELSE IF value.t = "int" THEN Ok([t |-> "Snowflake", v |-> value.v])
    ELSE IF value.t = "str" /\ value.v \in DOMAIN DecimalValue
         THEN Ok([t |-> "Snowflake", v |-> DecimalValue[value.v]])
    ELSE Fail(Exc("FormatError", "snowflake"))

\* int(snowflake)
SnowflakeInt(s) == s.v

\* datetime.fromisoformat / timestamp(value)
IsoValue == ("2021-01-01T00:00:00" :> 1) @@ ("2022-06-01T12:00:00" :> 2)

fromisoformat(value) ==
    IF value.t = "str" /\ value.v \in DOMAIN IsoValue
    THEN Ok([t |-> "datetime", v |-> IsoValue[value.v]])
    ELSE Fail(Exc("FormatError", "timestamp"))

\* convert_int(Permissions)
convert_permissions(value) ==
    IF value.t = "int" THEN Ok([t |-> "Permissions", v |-> value.v])
    ELSE IF value.t = "str" /\ value.v \in DOMAIN DecimalValue
         THEN Ok([t |-> "Permissions", v |-> DecimalValue[value.v]])
    ELSE Fail(Exc("FormatError", "int"))

\* enumCoerce(EnumType): the matching variant, or UnknownVariant.
EnumMembers(enum) ==
    CASE enum = "InviteTargetTypes" -> {1, 2}
      [] enum = "ComponentType" -> {1, 2, 3, 4}

enumCoerce(enum, value) ==
    IF value.t = "int" /\ value.v \in EnumMembers(enum)
    THEN Ok([t |-> enum, v |-> value.v])
    ELSE Fail(Exc("UnknownVariant", enum))

---------------------------------------------------------------------------
(* Field descriptors and the construction pipeline *)

\* field(...): one declared attribute. default is used when the wire key is absent;
\* a field without a default is required.
Field(name, wire, conv, required, default, add_client) ==
    [name |-> name, wire |-> wire, conv |-> conv, required |-> required,
     default |-> default, add_client |-> add_client]

Required(name, conv) == Field(name, name, conv, TRUE, None, FALSE)
Optional(name, conv, default) == Field(name, name, conv, FALSE, default, FALSE)

\* The schema of User: the attributes Member reads.
UserFields == <<
    Required("id", "snowflake"),
    Optional("username", "identity", None),
    Optional("avatar", "identity", None) >>

\* Member's declared attributes, in declaration order.
MemberFields == <<
    Field("user", "user", "User", FALSE, None, TRUE),
    Optional("nick", "identity", None),
    Field("_avatar", "avatar", "identity", FALSE, None, FALSE),
    Required("roles", "identity"),
    Required("joined_at", "fromisoformat"),
    Optional("premium_since", "fromisoformat", None),
    Required("deaf", "identity"),
    Required("mute", "identity"),
    Optional("is_pending", "identity", None),
    Optional("pending", "identity", None),
    Optional("permissions", "Permissions", None),
    Optional("communication_disabled_until", "fromisoformat", None),
    Optional("hoisted_role", "identity", None),
    Required("flags", "identity") >>

\* The schema of Channel and Message: the attributes Member.send reads.
ChannelFields == << Required("id", "snowflake") >>
MessageFields == << Required("id", "snowflake"), Optional("content", "identity", None) >>

\* optional(converter): null and unset pass through, anything else is converted.
OptionalOf ==
    ("optional(fromisoformat)" :> "fromisoformat") @@
    ("optional(snowflake)" :> "snowflake") @@
    ("optional(InviteTargetTypes)" :> "InviteTargetTypes")

RECURSIVE Convert(_, _, _)

\* For every descriptor in schema order: the converted wire value, or the default.
RECURSIVE BuildFields(_, _, _, _, _)
BuildFields(schema, raw, client, i, acc) ==
    IF i > Len(schema) THEN Ok(acc)
    ELSE LET fd == schema[i] IN
         IF fd.wire \notin DOMAIN raw
         THEN IF fd.required
              THEN Fail(Exc("TypeError", "missing argument " \o fd.name))
              ELSE BuildFields(schema, raw, client, i + 1, acc @@ (fd.name :> fd.default))
         ELSE LET c == Convert(fd.conv, raw[fd.wire], IF fd.add_client THEN client ELSE None) IN
              IF c.ok
              THEN BuildFields(schema, raw, client, i + 1, acc @@ (fd.name :> c.obj))
              ELSE c

\* fromJSON(schema, raw) of a client-bound class: the object, or the error raised.
fromJSON(class, schema, raw, client) ==
    BuildFields(schema, raw, client, 1, [t |-> class, _client |-> client])

Convert(conv, value, client) ==
    CASE conv \in DOMAIN OptionalOf ->
            IF value = None \/ value = MISSING THEN Ok(value)
            ELSE Convert(OptionalOf[conv], value, client)
      [] conv = "identity" -> Ok(value)
      [] conv = "InviteTargetTypes" -> enumCoerce("InviteTargetTypes", value)
      [] conv = "snowflake" -> to_snowflake(value)
      [] conv = "fromisoformat" -> fromisoformat(value)
      [] conv = "Permissions" -> convert_permissions(value)
      [] conv = "User" ->
            IF value.t = "dict" THEN fromJSON("User", UserFields, value.v, client)
            ELSE Fail(Exc("TypeError", "User"))

\* Member(**raw, _client=client)
MemberNew(raw, client) == fromJSON("Member", MemberFields, raw, client)

\* Channel(**raw) and Message(**raw, _client=client)
ChannelNew(raw) == fromJSON("Channel", ChannelFields, raw, None)
MessageNew(raw, client) == fromJSON("Message", MessageFields, raw, client)

\* MemberSlots as a loop over the public attributes only would have it.
MemberSlotsPublic ==
    LET public == {i \in 1..Len(MemberFields) : MemberFields[i].name = MemberFields[i].wire}
    IN [i \in 1..Len(MemberFields) |->
           IF i \in public THEN MemberFields[i].name ELSE MemberFields[1].name]

\* Member.__slots__: the names of the attributes the class declares.
MemberSlots == [i \in 1..Len(MemberFields) |-> MemberFields[i].name]

---------------------------------------------------------------------------
(* Member: computed properties *)

\* getattr(obj, name, None)
GetAttrOrNone(obj, name) == IF name \in DOMAIN obj THEN obj[name] ELSE None

\* MemberAvatar without the fallback to the user.
MemberAvatarOwnOnly(self) == self._avatar

\* Member.avatar
MemberAvatar(self) ==
    IF ~Falsy(self._avatar) THEN self._avatar ELSE GetAttrOrNone(self.user, "avatar")

\* Member.id
MemberId(self) == IF ~Falsy(self.user) THEN self.user.id ELSE None

---------------------------------------------------------------------------
(* Member: the action methods up to their first await *)

\* payload[key] = value
SetKey(payload, key, value) ==
    [k \in DOMAIN payload \cup {key} |-> IF k = key THEN value ELSE payload[k]]

\* A transport method invoked with keyword arguments.
Request(method, kwargs) == [method |-> method, kwargs |-> kwargs]

\* int(self.user.id)
UserIdInt(self) == PyInt(SnowflakeInt(self.user.id))

\* Member.ban: no guard; the client is dereferenced before the arguments are built.
ban(self, guild_id, reason, delete_message_days) ==
    IF self._client = None THEN Fail(NoneAttr("create_guild_ban"))
    ELSE IF self.user = None THEN Fail(NoneAttr("id"))
    ELSE Ok(Request("create_guild_ban",
                    [guild_id |-> guild_id, user_id |-> UserIdInt(self), reason |-> reason,
                     delete_message_days |-> delete_message_days]))

\* Member.kick
kick(self, guild_id, reason) ==
    IF Falsy(self._client) THEN Fail(MissingContext)
    ELSE IF self.user = None THEN Fail(NoneAttr("id"))
    ELSE Ok(Request("create_guild_kick",
                    [guild_id |-> guild_id, user_id |-> UserIdInt(self), reason |-> reason]))

\* role_call with a Role object handed to the transport as it is.
role_call_object(method, self, role, guild_id, reason) ==
    IF Falsy(self._client) THEN Fail(MissingContext)
    ELSE IF self.user = None THEN Fail(NoneAttr("id"))
    ELSE Ok(Request(method,
                    [guild_id |-> guild_id, user_id |-> UserIdInt(self),
                     role_id |-> role, reason |-> reason]))

\* Member.add_role / Member.remove_role: role is a Role object or a bare identifier.
role_call(method, self, role, guild_id, reason) ==
    IF Falsy(self._client) THEN Fail(MissingContext)
    ELSE IF self.user = None THEN Fail(NoneAttr("id"))
    ELSE IF role.t = "Role"
         THEN Ok(Request(method,
                         [guild_id |-> guild_id, user_id |-> UserIdInt(self),
                          role_id |-> PyInt(SnowflakeInt(role.id)), reason |-> reason]))
         ELSE Ok(Request(method,
                         [guild_id |-> guild_id, user_id |-> UserIdInt(self),
                          role_id |-> role, reason |-> reason]))

add_role(self, role, guild_id, reason) ==
    role_call("add_member_role", self, role, guild_id, reason)

remove_role(self, role, guild_id, reason) ==
    role_call("remove_member_role", self, role, guild_id, reason)

\* Member.add_to_thread
add_to_thread(self, thread_id) ==
    IF Falsy(self._client) THEN Fail(MissingContext)
    ELSE IF self.user = None THEN Fail(NoneAttr("id"))
    ELSE Ok(Request("add_member_to_thread",
                    [user_id |-> UserIdInt(self), thread_id |-> thread_id]))

\* ModifyPayload with the nickname tested for truth instead of for the unset marker.
ModifyPayloadTruthy(nick, roles, mute, deaf, channel_id, communication_disabled_until) ==
    LET p0 == <<>>
        p1 == IF ~Falsy(nick) /\ nick # MISSING THEN SetKey(p0, "nick", nick) ELSE p0
        p2 == IF roles # MISSING THEN SetKey(p1, "roles", roles) ELSE p1
        p3 == IF channel_id # MISSING THEN SetKey(p2, "channel_id", channel_id) ELSE p2
        p4 == IF mute # MISSING THEN SetKey(p3, "mute", mute) ELSE p3
        p5 == IF deaf # MISSING THEN SetKey(p4, "deaf", deaf) ELSE p4
        p6 == IF communication_disabled_until # MISSING
              THEN SetKey(p5, "communication_disabled_until", communication_disabled_until)
              ELSE p5
    IN p6

\* The payload Member.modify builds from its optional parameters.
ModifyPayload(nick, roles, mute, deaf, channel_id, communication_disabled_until) ==
    LET p0 == <<>>
        p1 == IF nick # MISSING THEN SetKey(p0, "nick", nick) ELSE p0
        p2 == IF roles # MISSING THEN SetKey(p1, "roles", roles) ELSE p1
        p3 == IF channel_id # MISSING THEN SetKey(p2, "channel_id", channel_id) ELSE p2
        p4 == IF mute # MISSING THEN SetKey(p3, "mute", mute) ELSE p3
        p5 == IF deaf # MISSING THEN SetKey(p4, "deaf", deaf) ELSE p4
        p6 == IF communication_disabled_until # MISSING
              THEN SetKey(p5, "communication_disabled_until", communication_disabled_until)
              ELSE p5
    IN p6

\* Member.modify up to the await of modify_member. a holds the arguments.
modify(self, a) ==
    IF Falsy(self._client) THEN Fail(MissingContext)
    ELSE LET payload == ModifyPayload(a.nick, a.roles, a.mute, a.deaf, a.channel_id,
                                      a.communication_disabled_until) IN
         IF self.user = None THEN Fail(NoneAttr("id"))
         ELSE Ok(Request("modify_member",
                         [user_id |-> UserIdInt(self), guild_id |-> a.guild_id,
                          payload |-> Dict(payload), reason |-> a.reason]))

\* _build_components(components=components)
BuildComponents(components) == [t |-> "built_components", of |-> components]

\* file._json_payload(id)
FileJsonPayload(file, id) == Dict([id |-> PyInt(id), filename |-> file.filename])

\* SendPayload with the content passed on as given, the unset marker included.
SendPayloadRawContent(content, components, tts, files, embeds, allowed_mentions) ==
    LET _content == content
        _tts == IF tts = MISSING THEN Bool(FALSE) ELSE tts
        _embeds ==
            IF Falsy(embeds) \/ embeds = MISSING THEN List(<<>>)
            ELSE IF embeds.t = "list"
                 THEN List([i \in 1..Len(embeds.v) |-> embeds.v[i]._json])
                 ELSE List(<<embeds._json>>)
        _allowed_mentions == IF allowed_mentions = MISSING THEN EmptyDict ELSE allowed_mentions
        _components ==
            IF Falsy(components) \/ components = MISSING THEN List(<<>>)
            ELSE BuildComponents(components)
        _files ==
            IF Falsy(files) \/ files = MISSING THEN List(<<>>)
            ELSE IF files.t = "list"
                 THEN List([i \in 1..Len(files.v) |-> FileJsonPayload(files.v[i], i - 1)])
                 ELSE List(<<FileJsonPayload(files, 0)>>)
        files2 ==
            IF Falsy(files) \/ files = MISSING \/ files.t = "list" THEN files
            ELSE List(<<files>>)
    IN [payload |-> [content |-> _content, tts |-> _tts, attachments |-> _files,
                     embeds |-> _embeds, components |-> _components,
                     allowed_mentions |-> _allowed_mentions],
        files |-> files2]

\* The payload and the files argument Member.send builds from its parameters.
SendPayload(content, components, tts, files, embeds, allowed_mentions) ==
    LET _content == IF content = MISSING THEN Str("") ELSE content
        _tts == IF tts = MISSING THEN Bool(FALSE) ELSE tts
        _embeds ==
            IF Falsy(embeds) \/ embeds = MISSING THEN List(<<>>)
            ELSE IF embeds.t = "list"
                 THEN List([i \in 1..Len(embeds.v) |-> embeds.v[i]._json])
                 ELSE List(<<embeds._json>>)
        _allowed_mentions == IF allowed_mentions = MISSING THEN EmptyDict ELSE allowed_mentions
        _components ==
            IF Falsy(components) \/ components = MISSING THEN List(<<>>)
            ELSE BuildComponents(components)
        _files ==
            IF Falsy(files) \/ files = MISSING THEN List(<<>>)
            ELSE IF files.t = "list"
                 THEN List([i \in 1..Len(files.v) |-> FileJsonPayload(files.v[i], i - 1)])
                 ELSE List(<<FileJsonPayload(files, 0)>>)
        files2 ==
            IF Falsy(files) \/ files = MISSING \/ files.t = "list" THEN files
            ELSE List(<<files>>)
    IN [payload |-> [content |-> _content, tts |-> _tts, attachments |-> _files,
                     embeds |-> _embeds, components |-> _components,
                     allowed_mentions |-> _allowed_mentions],
        files |-> files2]

\* Member.send up to the await of create_dm. The payload is built before the call.
send(self, a) ==
    IF Falsy(self._client) THEN Fail(MissingContext)
    ELSE LET built == SendPayload(a.content, a.components, a.tts, a.files, a.embeds,
                                  a.allowed_mentions) IN
         IF self.user = None THEN Fail(NoneAttr("id"))
         ELSE Ok(Request("create_dm", [recipient_id |-> UserIdInt(self)]))

\* Invite.delete: no guard; the client is dereferenced for its http attribute.
invite_delete(self, reason) ==
    IF self._client = None THEN Fail(NoneAttr("http"))
    ELSE Ok(Request("delete_invite", [code |-> self.code, reason |-> reason]))

---------------------------------------------------------------------------
(* The entity cache *)

\* cache.get_channel(id) / cache.get_user(id): the resident entity, or None.
CacheGet(store, kind, id) ==
    IF id.t = "Snowflake" /\ id.v \in store THEN [t |-> kind, id |-> id] ELSE None

\* cache.place_user_data(raw): the user is resident afterwards.
PlaceUser(c, id) == [c EXCEPT !.users = @ \cup {id.v}]

---------------------------------------------------------------------------
(* Invite *)

\* Invite's declared attributes, in declaration order. The initialiser takes the
\* private attributes without their leading underscore.
InviteFields == <<
    Required("code", "identity"),
    Optional("uses", "identity", PyInt(0)),
    Optional("max_uses", "identity", PyInt(0)),
    Optional("max_age", "identity", PyInt(0)),
    Optional("created_at", "optional(fromisoformat)", MISSING),
    Optional("temporary", "identity", Bool(FALSE)),
    Optional("target_type", "optional(InviteTargetTypes)", None),
    Optional("approximate_presence_count", "identity", MISSING),
    Optional("approximate_member_count", "identity", MISSING),
    Optional("scheduled_event", "optional(snowflake)", None),
    Optional("expires_at", "optional(fromisoformat)", None),
    Optional("stage_instance", "identity", None),
    Optional("target_application", "identity", None),
    Optional("guild_preview", "identity", MISSING),
    Field("_channel_id", "channel_id", "snowflake", TRUE, None, FALSE),
    Field("_inviter_id", "inviter_id", "optional(snowflake)", FALSE, None, FALSE),
    Field("_target_user_id", "target_user_id", "optional(snowflake)", FALSE, None, FALSE) >>

\* data.pop(key, None)
Without(data, key) == [k \in DOMAIN data \ {key} |-> data[k]]

\* Invite._process_dict on data without stage_instance, target_application and guild:
\* the event id is copied, the channel is reduced to its id and the inviter to the
\* id of the user the cache holds for him.
ProcessDict(data) ==
    LET d1 == IF "target_event_id" \in DOMAIN data
              THEN SetKey(data, "scheduled_event", data["target_event_id"])
              ELSE data
        d2 == IF "channel" \in DOMAIN d1
              THEN IF Falsy(d1["channel"]) THEN Without(d1, "channel")
                   ELSE SetKey(Without(d1, "channel"), "channel_id", d1["channel"].v["id"])
              ELSE d1
        d3 == IF "inviter" \in DOMAIN d2
              THEN IF Falsy(d2["inviter"]) THEN Without(d2, "inviter")
                   ELSE SetKey(Without(d2, "inviter"), "inviter_id",
                               to_snowflake(d2["inviter"].v["id"]).obj)
              ELSE d2
    IN d3

\* The users _process_dict places in the cache: the inviter, when the data has one.
ProcessDictPlaces(data, c) ==
    IF "inviter" \in DOMAIN data /\ ~Falsy(data["inviter"])
    THEN LET id == to_snowflake(data["inviter"].v["id"]) IN
         IF id.ok THEN PlaceUser(c, id.obj) ELSE c
    ELSE c

\* Invite.from_dict(data, client)
InviteNew(data, client) == fromJSON("Invite", InviteFields, ProcessDict(data), client)

\* InviteChannel with an indexing lookup, which fails for an absent channel.
InviteChannelIndexed(self, c) ==
    IF self._client = None THEN Fail(NoneAttr("cache"))
    ELSE IF self._channel_id.v \in c.channels
         THEN Ok(CacheGet(c.channels, "Channel", self._channel_id))
         ELSE Fail(Exc("KeyError", "channel"))

\* Invite.channel
InviteChannel(self, c) ==
    IF self._client = None THEN Fail(NoneAttr("cache"))
    ELSE Ok(CacheGet(c.channels, "Channel", self._channel_id))

\* Invite.inviter
InviteInviter(self, c) ==
    IF ~Falsy(self._inviter_id)
    THEN IF self._client = None THEN Fail(NoneAttr("cache"))
         ELSE Ok(CacheGet(c.users, "User", self._inviter_id))
    ELSE Ok(None)

\* Invite.target_user
InviteTargetUser(self, c) ==
    IF ~Falsy(self._target_user_id)
    THEN IF self._client = None THEN Fail(NoneAttr("cache"))
         ELSE Ok(CacheGet(c.users, "User", self._target_user_id))
    ELSE Ok(None)

---------------------------------------------------------------------------
(* Components *)

\* DictSerializerMixin.__init__(**kwargs): every slot holds its keyword argument, or
\* None; _json holds the keyword arguments.
DictInit(class, slots, kwargs) ==
    [k \in slots \cup {"t", "_json"} |->
        IF k = "t" THEN class
        ELSE IF k = "_json" THEN Dict(kwargs)
        ELSE IF k \in DOMAIN kwargs THEN kwargs[k] ELSE None]

ComponentSlots ==
    {"type", "custom_id", "disabled", "style", "label", "emoji", "url", "options",
     "placeholder", "min_values", "max_values", "components"}

\* Component.__init__(**kwargs)
ComponentNew(kwargs) ==
    LET base == DictInit("Component", ComponentSlots, kwargs)
        type == enumCoerce("ComponentType", base.type)
    IN IF type.ok THEN Ok([base EXCEPT !.type = type.obj]) ELSE Fail(type.exc)

\* The variants the component classes assign.
ComponentTypeSELECT == [t |-> "ComponentType", v |-> 3]
ComponentTypeBUTTON == [t |-> "ComponentType", v |-> 2]

\* x.value: the integer of an enum member; anything else has no such attribute.
EnumValue(x) ==
    IF x.t \in {"ComponentType", "ButtonStyle"} THEN Ok(PyInt(x.v))
    ELSE Fail(Exc("AttributeError", "object has no attribute 'value'"))

\* d.update(entries)
DictUpdate(d, entries) == Dict(entries @@ d.v)

SelectMenuSlots == {"type", "custom_id", "placeholder", "min_values", "max_values", "disabled"}
ButtonSlots == {"type", "style", "label", "emoji", "custom_id", "url", "disabled"}
ActionRowSlots == {"type", "components"}

\* SelectMenu.__init__(**kwargs)
SelectMenuNew(kwargs) ==
    LET base == DictInit("SelectMenu", SelectMenuSlots, kwargs)
        typed == [base EXCEPT !.type = ComponentTypeSELECT]
        value == EnumValue(typed.type)
    IN IF value.ok
       THEN Ok([typed EXCEPT !._json = DictUpdate(@, [type |-> value.obj])])
       ELSE Fail(value.exc)

\* Button.__init__(**kwargs)
ButtonNew(kwargs) ==
    LET base == DictInit("Button", ButtonSlots, kwargs)
        typed == [base EXCEPT !.type = ComponentTypeBUTTON]
        value == EnumValue(typed.type)
        style == EnumValue(typed.style)
    IN IF ~value.ok THEN Fail(value.exc)
       ELSE IF ~style.ok THEN Fail(style.exc)
       ELSE Ok([typed EXCEPT !._json = DictUpdate(@, [type |-> value.obj,
                                                      style |-> style.obj])])

\* ActionRow.__init__(**kwargs)
ActionRowNew(kwargs) ==
    LET base == DictInit("ActionRow", ActionRowSlots, kwargs)
    IN Ok([base EXCEPT !.type = PyInt(1)])

---------------------------------------------------------------------------
(* Member: the action methods after an await *)

\* CopySlots as a patch that skips the attributes the response left null.
RECURSIVE CopySlotsSkipNone(_, _, _)
CopySlotsSkipNone(self, built, i) ==
    IF i > Len(MemberSlots) THEN self
    ELSE CopySlotsSkipNone(
             IF built[MemberSlots[i]] = None THEN self
             ELSE [self EXCEPT ![MemberSlots[i]] = built[MemberSlots[i]]],
             built, i + 1)

\* for attr in self.__slots__: setattr(self, attr, getattr(member, attr))
RECURSIVE CopySlots(_, _, _)
CopySlots(self, built, i) ==
    IF i > Len(MemberSlots) THEN self
    ELSE CopySlots([self EXCEPT ![MemberSlots[i]] = built[MemberSlots[i]]], built, i + 1)

\* ModifyResume as field-by-field patching from the raw response would have it: the
\* nickname is already assigned when a later field fails to convert.
ModifyResumePatching(self, res) ==
    LET built == MemberNew(res, self._client) IN
    IF built.ok
    THEN [self |-> CopySlots(self, built.obj, 1), outcome |-> Ok(built.obj)]
    ELSE [self |-> IF "nick" \in DOMAIN res THEN [self EXCEPT !.nick = res.nick] ELSE self,
          outcome |-> Fail(built.exc)]

\* ModifyResume with the client reference left out of the Member it builds.
ModifyResumeNoClient(self, res) ==
    LET built == MemberNew(res, None) IN
    IF built.ok
    THEN [self |-> CopySlots(self, built.obj, 1), outcome |-> Ok(built.obj)]
    ELSE [self |-> self, outcome |-> Fail(built.exc)]

\* ModifyResume with the instance rebound to a Member built from the response alone.
ModifyResumeWholesale(self, res) ==
    LET built == MemberNew(res, None) IN
    IF built.ok
    THEN [self |-> built.obj, outcome |-> Ok(built.obj)]
    ELSE [self |-> self, outcome |-> Fail(built.exc)]

\* f(**res, _client=c) with a "_client" key in res: the call itself raises.
DuplicateKeyword == Exc("TypeError", "got multiple values for keyword argument '_client'")

\* Member.modify once modify_member has returned res: the instance afterwards and
\* the Member returned, or the error raised.
ModifyResume(self, res) ==
    LET built == IF "_client" \in DOMAIN res THEN Fail(DuplicateKeyword)
                 ELSE MemberNew(res, self._client) IN
    IF built.ok
    THEN [self |-> CopySlots(self, built.obj, 1), outcome |-> Ok(built.obj)]
    ELSE [self |-> self, outcome |-> Fail(built.exc)]

\* As SendAfterDm, but the message goes to the member's user id, not to the channel.
SendAfterDmToUser(self, a, res) ==
    LET channel == ChannelNew(res)
        built == SendPayload(a.content, a.components, a.tts, a.files, a.embeds,
                             a.allowed_mentions)
    IN IF channel.ok
       THEN Ok(Request("create_message",
                       [channel_id |-> IF self.user = None THEN None ELSE UserIdInt(self),
                        payload |-> Dict(built.payload), files |-> built.files]))
       ELSE Fail(channel.exc)

\* Member.send once create_dm has returned res: the create_message call, or the error.
SendAfterDm(self, a, res) ==
    LET channel == ChannelNew(res)
        built == SendPayload(a.content, a.components, a.tts, a.files, a.embeds,
                             a.allowed_mentions)
    IN IF channel.ok
       THEN Ok(Request("create_message",
                       [channel_id |-> PyInt(SnowflakeInt(channel.obj.id)),
                        payload |-> Dict(built.payload), files |-> built.files]))
       ELSE Fail(channel.exc)

\* Member.send once create_message has returned res: the Message, or the error.
SendAfterMessage(self, res) == MessageNew(res, self._client)

---------------------------------------------------------------------------
(* Bounds and the values the environment supplies *)

\* Action-method calls started in one behaviour.
MaxCalls == 3

\* The coroutines that call action methods: two, so that calls can overlap.
Tasks == {"t1", "t2"}

RawUser == Dict([id |-> Str("7"), username |-> Str("bob"), avatar |-> Str("ua")])

Iso1 == Str("2021-01-01T00:00:00")
Iso2 == Str("2022-06-01T12:00:00")

\* The data a manually or pipeline-built Member starts from.
RawMember0 ==
    [user |-> RawUser, nick |-> Str("zero"), avatar |-> Str("m0"), roles |-> List(<<PyInt(1)>>),
     joined_at |-> Iso1, deaf |-> Bool(FALSE), mute |-> Bool(FALSE), flags |-> PyInt(0)]

\* Responses of modify_member: two full ones that differ in most fields, one without
\* the optional keys, one without a required key and one with a malformed timestamp.
RawMemberA ==
    [user |-> RawUser, nick |-> Str("alice"), avatar |-> Str("ma"), roles |-> List(<<PyInt(2)>>),
     joined_at |-> Iso1, deaf |-> Bool(TRUE), mute |-> Bool(FALSE), flags |-> PyInt(0),
     permissions |-> Str("8")]
RawMemberB ==
    [user |-> RawUser, nick |-> Str("bea"), roles |-> List(<<PyInt(1), PyInt(2)>>),
     joined_at |-> Iso2, premium_since |-> Iso2, deaf |-> Bool(FALSE), mute |-> Bool(TRUE),
     flags |-> PyInt(1), communication_disabled_until |-> Iso2]
RawMemberBare ==
    [roles |-> List(<<>>), joined_at |-> Iso1, deaf |-> Bool(FALSE), mute |-> Bool(FALSE),
     flags |-> PyInt(0)]
RawMemberNoRoles ==
    [user |-> RawUser, nick |-> Str("carl"), joined_at |-> Iso1, deaf |-> Bool(TRUE),
     mute |-> Bool(TRUE), flags |-> PyInt(0)]
RawMemberBadTime ==
    [user |-> RawUser, nick |-> Str("dora"), roles |-> List(<<>>), joined_at |-> Str("yesterday"),
     deaf |-> Bool(TRUE), mute |-> Bool(TRUE), flags |-> PyInt(0)]

InitialMembers == {RawMember0, RawMemberBare}
\* A response that carries a "_client" entry of its own.
RawMemberWithClient == [nick |-> Str("eve"), _client |-> Str("other")]
MemberResponses ==
    {RawMemberA, RawMemberB, RawMemberBare, RawMemberNoRoles, RawMemberBadTime,
     RawMemberWithClient}

\* Responses of create_dm and create_message.
DmResponses == {[id |-> Str("20")], [id |-> Str("21")], [name |-> Str("no id")]}
MessageResponses == {[id |-> Str("30"), content |-> Str("hi")], [content |-> Str("no id")]}

\* What the transport raises: an HTTP error, a cancellation, a timeout.
TransportErrors ==
    {Exc("HTTPException", "403"), Exc("CancelledError", ""), Exc("TimeoutError", "")}

GuildIds == {PyInt(1)}
Reasons == {Str("spam")}
ThreadIds == {PyInt(40)}
RoleArgs == {[t |-> "Role", id |-> [t |-> "Snowflake", v |-> 5]], PyInt(5)}

\* The arguments of modify and send the coroutines call with.
ModifyArgs ==
    [guild_id : GuildIds, nick : {MISSING, Str("neo")}, roles : {MISSING},
     mute : {MISSING}, deaf : {MISSING}, channel_id : {MISSING},
     communication_disabled_until : {MISSING}, reason : {None}]
SendArgs ==
    [content : {MISSING, Str("hi")}, components : {MISSING}, tts : {MISSING},
     files : {MISSING}, embeds : {MISSING}, allowed_mentions : {MISSING}]

RawInvite0 == [code |-> Str("abc"), channel_id |-> Str("20")]

EmptyCache == [channels |-> {}, users |-> {}]

\* Nothing was applied or read yet.
NoOutput == [op |-> "none", r |-> None]

---------------------------------------------------------------------------
(* Coroutines *)

\* n is the number of the call among the calls started, in the order of starting;
\* dm is what create_dm returned to the coroutine, None until it has.
Idle ==
    [pc |-> "idle", op |-> "", args |-> None, n |-> 0, req |-> None, dm |-> None,
     exc |-> None, result |-> None]
Awaiting(task, req) == [task EXCEPT !.pc = "await", !.req = req]
Raised(task, exc) == [task EXCEPT !.pc = "raised", !.exc = exc]
Returned(task, result) == [task EXCEPT !.pc = "returned", !.result = result]

\* A coroutine calls an action method, which runs to its first await: r is the
\* transport call it makes there, or the error it raises before.
Begin(tk, op, args, r) ==
    /\ tasks[tk].pc \in {"idle", "returned", "raised"}
    /\ started < MaxCalls
    /\ started' = started + 1
    /\ LET fresh == [Idle EXCEPT !.op = op, !.args = args, !.n = started + 1] IN
       IF r.ok
       THEN /\ tasks' = [tasks EXCEPT ![tk] = Awaiting(fresh, r.obj)]
            /\ ncalls' = ncalls + 1
       ELSE /\ tasks' = [tasks EXCEPT ![tk] = Raised(fresh, r.exc)]
            /\ UNCHANGED ncalls
    /\ UNCHANGED <<member, invite, lastBuilt, cache, ctx, input, output>>

Ban(tk, guild_id, reason, days) ==
    Begin(tk, "ban", [guild_id |-> guild_id, reason |-> reason, delete_message_days |-> days],
          ban(member, guild_id, reason, days))

Kick(tk, guild_id, reason) ==
    Begin(tk, "kick", [guild_id |-> guild_id, reason |-> reason], kick(member, guild_id, reason))

AddRole(tk, role, guild_id, reason) ==
    Begin(tk, "add_role", [role |-> role, guild_id |-> guild_id, reason |-> reason],
          add_role(member, role, guild_id, reason))

RemoveRole(tk, role, guild_id, reason) ==
    Begin(tk, "remove_role", [role |-> role, guild_id |-> guild_id, reason |-> reason],
          remove_role(member, role, guild_id, reason))

AddToThread(tk, thread_id) ==
    Begin(tk, "add_to_thread", [thread_id |-> thread_id], add_to_thread(member, thread_id))

Send(tk, a) == Begin(tk, "send", a, send(member, a))

Modify(tk, a) == Begin(tk, "modify", a, modify(member, a))

InviteDelete(tk, reason) ==
    Begin(tk, "delete", [reason |-> reason], invite_delete(invite, reason))

VoidMethods ==
    {"create_guild_ban", "create_guild_kick", "add_member_role", "remove_member_role",
     "add_member_to_thread", "delete_invite"}

\* The transport call a coroutine awaits fails: the method propagates the error.
TransportRaises(tk, err) ==
    /\ tasks[tk].pc = "await"
    /\ tasks' = [tasks EXCEPT ![tk] = Raised(@, err)]
    /\ UNCHANGED <<member, invite, started, ncalls, lastBuilt, cache, ctx, input, output>>

\* A transport call without a result returns: so does the method.
VoidReturns(tk) ==
    /\ tasks[tk].pc = "await"
    /\ tasks[tk].req.method \in VoidMethods
    /\ tasks' = [tasks EXCEPT ![tk] = Returned(@, None)]
    /\ UNCHANGED <<member, invite, started, ncalls, lastBuilt, cache, ctx, input, output>>

\* modify_member returns res: modify builds a Member from it and copies it over self.
ModifyMemberReturns(tk, res) ==
    /\ tasks[tk].pc = "await"
    /\ tasks[tk].req.method = "modify_member"
    /\ LET r == ModifyResume(member, res) IN
       /\ member' = r.self
       /\ IF r.outcome.ok
          THEN /\ tasks' = [tasks EXCEPT ![tk] = Returned(@, r.outcome.obj)]
               /\ lastBuilt' = r.outcome.obj
          ELSE /\ tasks' = [tasks EXCEPT ![tk] = Raised(@, r.outcome.exc)]
               /\ UNCHANGED lastBuilt
    /\ UNCHANGED <<invite, started, ncalls, cache, ctx, input, output>>

\* create_dm returns res: send builds the Channel and calls create_message.
CreateDmReturns(tk, res) ==
    /\ tasks[tk].pc = "await"
    /\ tasks[tk].req.method = "create_dm"
    /\ LET r == SendAfterDm(member, tasks[tk].args, res) IN
       IF r.ok
       THEN /\ tasks' = [tasks EXCEPT ![tk] = Awaiting([@ EXCEPT !.dm = Dict(res)], r.obj)]
            /\ ncalls' = ncalls + 1
       ELSE /\ tasks' = [tasks EXCEPT ![tk] = Raised([@ EXCEPT !.dm = Dict(res)], r.exc)]
            /\ UNCHANGED ncalls
    /\ UNCHANGED <<member, invite, started, lastBuilt, cache, ctx, input, output>>

\* create_message returns res: send builds and returns the Message.
CreateMessageReturns(tk, res) ==
    /\ tasks[tk].pc = "await"
    /\ tasks[tk].req.method = "create_message"
    /\ LET r == SendAfterMessage(member, res) IN
       IF r.ok
       THEN tasks' = [tasks EXCEPT ![tk] = Returned(@, r.obj)]
       ELSE tasks' = [tasks EXCEPT ![tk] = Raised(@, r.exc)]
    /\ UNCHANGED <<member, invite, started, ncalls, lastBuilt, cache, ctx, input, output>>

\* The instances are built with a client reference, or manually without one.
Init ==
    /\ ctx \in Clients
    /\ \E raw \in InitialMembers : member = MemberNew(raw, ctx).obj
    /\ invite = InviteNew(RawInvite0, ctx).obj
    /\ tasks = [tk \in Tasks |-> Idle]
    /\ started = 0
    /\ ncalls = 0
    /\ lastBuilt = None
    /\ cache = EmptyCache
    /\ input = None
    /\ output = NoOutput

Next ==
    \/ \E tk \in Tasks, g \in GuildIds, r \in Reasons : Ban(tk, g, r, PyInt(0))
    \/ \E tk \in Tasks, g \in GuildIds, r \in Reasons : Kick(tk, g, r)
    \/ \E tk \in Tasks, role \in RoleArgs, g \in GuildIds, r \in Reasons : AddRole(tk, role, g, r)
    \/ \E tk \in Tasks, role \in RoleArgs, g \in GuildIds, r \in Reasons : RemoveRole(tk, role, g, r)
    \/ \E tk \in Tasks, th \in ThreadIds : AddToThread(tk, th)
    \/ \E tk \in Tasks, a \in SendArgs : Send(tk, a)
    \/ \E tk \in Tasks, a \in ModifyArgs : Modify(tk, a)
    \/ \E tk \in Tasks, r \in {MISSING} : InviteDelete(tk, r)
    \/ \E tk \in Tasks, err \in TransportErrors : TransportRaises(tk, err)
    \/ \E tk \in Tasks : VoidReturns(tk)
    \/ \E tk \in Tasks, res \in MemberResponses : ModifyMemberReturns(tk, res)
    \/ \E tk \in Tasks, res \in DmResponses : CreateDmReturns(tk, res)
    \/ \E tk \in Tasks, res \in MessageResponses : CreateMessageReturns(tk, res)

Spec == Init /\ [][Next]_vars

---------------------------------------------------------------------------
(* Properties of the action methods, under Spec *)

\* The instance an action method is called on.
Target(op) == IF op = "delete" THEN invite ELSE member

\* The step in which coroutine tk calls an action method.
CallStep(tk) == started' = started + 1 /\ tasks'[tk].n = started + 1

\* The schema fields of a Member, without its client reference.
SchemaFields(m) == [i \in 1..Len(MemberFields) |-> m[MemberFields[i].name]]

\* C1: a remote action method called on an instance without a client reference fails
\* with the missing-context error and invokes no transport method.
C1_MissingContextNoTransport ==
    [][\A tk \in Tasks :
         (CallStep(tk) /\ Target(tasks'[tk].op)._client = None)
         => /\ tasks'[tk].pc = "raised"
            /\ tasks'[tk].exc = MissingContext
            /\ ncalls' = ncalls
            /\ tasks'[tk].req = None]_vars

\* The part of C1 every method meets: without a client reference the call raises
\* and no transport method is invoked.
NoClientNoTransport ==
    [][\A tk \in Tasks :
         (CallStep(tk) /\ Target(tasks'[tk].op)._client = None)
         => /\ tasks'[tk].pc = "raised"
            /\ ncalls' = ncalls
            /\ tasks'[tk].req = None]_vars

\* C2: when the transport call of modify fails, or the response cannot be built into
\* a Member, every field of the instance keeps the value it had before.
C2_FailedModifyKeepsFields ==
    [][\A tk \in Tasks :
         (tasks[tk].pc = "await" /\ tasks[tk].op = "modify" /\ tasks'[tk].pc = "raised")
         => member' = member]_vars

\* A modify whose response could not be built and a modify whose transport call
\* failed have both raised.
C2_Witness ==
    \E a, b \in Tasks :
        /\ tasks[a].op = "modify" /\ tasks[a].pc = "raised" /\ tasks[a].req # None
        /\ tasks[a].exc.type \in {"TypeError", "FormatError"}
        /\ tasks[b].op = "modify" /\ tasks[b].pc = "raised" /\ tasks[b].req # None
        /\ tasks[b].exc \in TransportErrors

\* The Members the instance can start as.
InitialSchemaFields == {SchemaFields(MemberNew(raw, ctx).obj) : raw \in InitialMembers}

\* C3: with modify calls overlapping, the instance's fields are those of the response
\* that returned last, and until a response has returned they are the initial ones:
\* never a mixture.
C3_LastResponseWins ==
    IF lastBuilt = None
    THEN SchemaFields(member) \in InitialSchemaFields
    ELSE SchemaFields(member) = SchemaFields(lastBuilt)

\* Two modify calls overlapped and both succeeded with different responses: the
\* call started first returned last.
C3_Witness ==
    \E a, b \in Tasks :
        /\ tasks[a].op = "modify" /\ tasks[a].pc = "returned" /\ tasks[a].n = 1
        /\ tasks[b].op = "modify" /\ tasks[b].pc = "returned" /\ tasks[b].n = 2
        /\ SchemaFields(tasks[a].result) # SchemaFields(tasks[b].result)
        /\ lastBuilt = tasks[a].result

\* C4: when modify succeeds, the Member it returns is the one built from the
\* response, and every schema field of the instance equals that Member's.
C4_ModifyReplacesEveryField ==
    [][\A tk \in Tasks :
         (tasks[tk].pc = "await" /\ tasks[tk].op = "modify" /\ tasks'[tk].pc = "returned")
         => /\ \E res \in MemberResponses :
                  LET built == MemberNew(res, member._client) IN
                  built.ok /\ tasks'[tk].result = built.obj
            /\ \A i \in 1..Len(MemberFields) :
                  member'[MemberFields[i].name] = tasks'[tk].result[MemberFields[i].name]]_vars

\* A modify succeeded with the response that has no avatar and no permissions: the
\* instance, which started with an avatar, has none now.
C4_Witness ==
    \E tk \in Tasks :
        /\ tasks[tk].op = "modify" /\ tasks[tk].pc = "returned"
        /\ tasks[tk].result.nick = Str("bea")
        /\ member.nick = Str("bea")
        /\ member._avatar = None
        /\ started = 1

\* C9: the nested user of the instance, and of every Member modify returned, holds
\* the client reference the instance was constructed with.
C9_NestedUserSharesClient ==
    /\ member.user # None => member.user._client = ctx
    /\ \A tk \in Tasks :
         (tasks[tk].op = "modify" /\ tasks[tk].pc = "returned" /\ tasks[tk].result.user # None)
         => tasks[tk].result.user._client = ctx

\* Two modify calls have succeeded on an instance constructed with a client, and
\* the instance and the returned Member have a nested user.
C9_Witness ==
    /\ ctx = TheClient
    /\ member.user # None
    /\ member.user._client = TheClient
    /\ \A tk \in Tasks :
         /\ tasks[tk].op = "modify" /\ tasks[tk].pc = "returned"
         /\ tasks[tk].result.user # None

\* The channel id a create_dm response carries, as the integer the transport takes.
DmChannelId(dm) == PyInt(DecimalValue[dm.v.id.v])

\* C11: in Member.send the create_dm call has returned before create_message is
\* issued, create_dm is issued for the member's own user id, create_message goes to
\* the channel id that this create_dm returned, and a send whose create_dm failed
\* issues no create_message.
C11_SendDmBeforeMessage ==
    [][\A tk \in Tasks :
         LET a == tasks[tk]
             b == tasks'[tk]
         IN /\ (CallStep(tk) /\ b.op = "send" /\ b.pc = "await")
                 => /\ b.req = Request("create_dm",
                                       [recipient_id |-> PyInt(member.user.id.v)])
                    /\ b.dm = None
            /\ (b.req # a.req /\ b.req # None /\ b.req.method = "create_message")
                 => /\ a.op = "send" /\ a.pc = "await" /\ b.n = a.n
                    /\ a.req.method = "create_dm" /\ a.dm = None
                    /\ b.dm # None /\ "id" \in DOMAIN b.dm.v
                    /\ b.req.kwargs.channel_id = DmChannelId(b.dm)
                    /\ ncalls' = ncalls + 1
            /\ (a.pc = "await" /\ a.req.method = "create_dm" /\ b.pc = "raised")
                 => /\ b.req = a.req
                    /\ b.n = a.n
                    /\ ncalls' = ncalls
       ]_vars

\* Two sends have each been answered by create_dm with a different channel, and each
\* has issued create_message to its own channel.
C11_Witness ==
    /\ \A tk \in Tasks :
         /\ tasks[tk].op = "send"
         /\ tasks[tk].req # None /\ tasks[tk].req.method = "create_message"
         /\ tasks[tk].req.kwargs.channel_id = DmChannelId(tasks[tk].dm)
    /\ tasks["t1"].dm.v.id = Str("20")
    /\ tasks["t2"].dm.v.id = Str("21")

\* C12: Member.modify never changes the instance's client reference: through any
\* sequence of successful and failed modify calls it stays the one the instance was
\* constructed with, whatever the responses contain.
C12_ModifyKeepsClient ==
    [][member'._client = member._client /\ member'._client = ctx']_vars

\* On an instance with a client, one modify has replaced the fields, one has failed on
\* a response with a "_client" entry, and the client reference is the original one.
C12_Witness ==
    /\ ctx = TheClient
    /\ member._client = TheClient
    /\ member.nick = Str("bea")
    /\ \A tk \in Tasks : tasks[tk].op = "modify"
    /\ tasks["t1"].pc = "returned"
    /\ tasks["t2"].pc = "raised" /\ tasks["t2"].exc = DuplicateKeyword

\* The two methods that take a role.
RoleMethods == {"add_role", "remove_role"}

\* What the method named op does when called on self with the bare identifier role.
RoleCallBare(op, self, role, guild_id, reason) ==
    IF op = "add_role" THEN add_role(self, role, guild_id, reason)
    ELSE remove_role(self, role, guild_id, reason)

\* C13: add_role and remove_role called with a Role object whose id is r issue exactly
\* one transport call, the same call (guild_id, user_id, role_id, reason) as when they
\* are called with the bare identifier r, and fail as that call fails.
C13_RoleObjectAsBareId ==
    [][\A tk \in Tasks :
         LET a == tasks[tk]
             b == tasks'[tk]
         IN /\ (CallStep(tk) /\ b.op \in RoleMethods /\ b.args.role.t = "Role")
                 => LET r == RoleCallBare(b.op, member, PyInt(b.args.role.id.v),
                                          b.args.guild_id, b.args.reason)
                    IN IF r.ok
                       THEN b.pc = "await" /\ b.req = r.obj /\ ncalls' = ncalls + 1
                       ELSE b.pc = "raised" /\ b.exc = r.exc /\ b.req = None
                            /\ ncalls' = ncalls
            /\ (a.op \in RoleMethods /\ b.n = a.n)
                 => b.req = a.req
       ]_vars

\* One coroutine has called add_role with a Role object and the other with the bare
\* identifier of that role, and both have issued the same transport call.
C13_Witness ==
    /\ tasks["t1"].op = "add_role" /\ tasks["t1"].args.role.t = "Role"
    /\ tasks["t2"].op = "add_role"
    /\ tasks["t2"].args.role = PyInt(tasks["t1"].args.role.id.v)
    /\ tasks["t1"].req # None
    /\ tasks["t1"].req = tasks["t2"].req
    /\ tasks["t1"].pc = "returned"

\* A send whose create_dm failed has raised with create_dm as its only call.
C11_WitnessDmFailed ==
    \E tk \in Tasks :
        /\ tasks[tk].op = "send" /\ tasks[tk].pc = "raised"
        /\ tasks[tk].req # None /\ tasks[tk].req.method = "create_dm"
        /\ ncalls = 1

---------------------------------------------------------------------------
(* The payload builders and the avatar property on their own: SpecPure *)

File1 == [t |-> "File", filename |-> "a.png"]
File2 == [t |-> "File", filename |-> "b.png"]
Embed1 == [t |-> "Embed", _json |-> Dict([title |-> Str("hello")])]
Button1 == [t |-> "Button", _json |-> Dict([type |-> PyInt(2)])]

ModifyInputs ==
    [fn : {"modify"}, guild_id : GuildIds,
     nick : {MISSING, None, Str("")},
     roles : {MISSING, None, List(<<>>), List(<<PyInt(2)>>)},
     mute : {MISSING, None, Bool(FALSE), Bool(TRUE)},
     deaf : {MISSING, Bool(FALSE)},
     channel_id : {MISSING, None, PyInt(20)},
     communication_disabled_until : {MISSING, None, Iso1},
     reason : {None, Str("spam")}]

SendInputs ==
    [fn : {"send"},
     content : {MISSING, None, Str(""), Str("hi")},
     tts : {MISSING, Bool(FALSE), Bool(TRUE)},
     files : {MISSING, None, List(<<>>), File1, List(<<File1, File2>>)},
     embeds : {MISSING, List(<<>>), Embed1, List(<<Embed1>>)},
     components : {MISSING, List(<<>>), Button1},
     allowed_mentions : {MISSING, None, EmptyDict, Dict([parse |-> List(<<>>)])}]

\* Wire data of a Member: the avatar key and the user absent, null, empty or set.
AvatarParts == {<<>>, [avatar |-> None], [avatar |-> Str("")], [avatar |-> Str("ma")]}
UserParts ==
    {<<>>,
     [user |-> Dict([id |-> Str("7")])],
     [user |-> Dict([id |-> Str("7"), avatar |-> None])],
     [user |-> Dict([id |-> Str("7"), avatar |-> Str("ua")])]}
AvatarInputs ==
    {[fn |-> "avatar", raw |-> RawMemberBare @@ av @@ us] : av \in AvatarParts, us \in UserParts}

OptionalParams == {"nick", "roles", "mute", "deaf", "channel_id", "communication_disabled_until"}

InitPure ==
    /\ input \in ModifyInputs \cup SendInputs \cup AvatarInputs
    /\ output = NoOutput
    /\ ctx = TheClient
    /\ member = MemberNew(RawMember0, ctx).obj
    /\ invite = InviteNew(RawInvite0, ctx).obj
    /\ tasks = [tk \in Tasks |-> Idle]
    /\ started = 0
    /\ ncalls = 0
    /\ lastBuilt = None
    /\ cache = EmptyCache

\* modify is called: the modify_member call it makes.
ApplyModify ==
    /\ input.fn = "modify"
    /\ output = NoOutput
    /\ output' = [op |-> "modify", r |-> modify(member, input)]
    /\ UNCHANGED <<member, invite, tasks, started, ncalls, lastBuilt, cache, ctx, input>>

\* send is called and create_dm returns a channel: the create_message call it makes.
ApplySend ==
    /\ input.fn = "send"
    /\ output = NoOutput
    /\ send(member, input).ok
    /\ output' = [op |-> "send", r |-> SendAfterDm(member, input, [id |-> Str("20")])]
    /\ UNCHANGED <<member, invite, tasks, started, ncalls, lastBuilt, cache, ctx, input>>

\* A Member is built from wire data and its avatar is read.
ApplyAvatar ==
    /\ input.fn = "avatar"
    /\ output = NoOutput
    /\ LET m == MemberNew(input.raw, ctx) IN
       output' = [op |-> "avatar", r |-> IF m.ok THEN Ok(MemberAvatar(m.obj)) ELSE m]
    /\ UNCHANGED <<member, invite, tasks, started, ncalls, lastBuilt, cache, ctx, input>>

NextPure == ApplyModify \/ ApplySend \/ ApplyAvatar

SpecPure == InitPure /\ [][NextPure]_vars

\* C5: the payload modify passes to the transport has exactly the keys of the
\* optional parameters the caller supplied, with the supplied values, null, empty
\* and false included; guild_id and reason are no keys of it.
C5_ModifyPayloadExactlySupplied ==
    output.op = "modify" =>
        LET payload == output.r.obj.kwargs.payload.v
            S == {k \in OptionalParams : input[k] # MISSING}
        IN /\ output.r.ok
           /\ DOMAIN payload = S
           /\ \A k \in S : payload[k] = input[k]
           /\ "guild_id" \notin DOMAIN payload
           /\ "reason" \notin DOMAIN payload

\* modify was called with an explicit null nickname, false mute and empty roles.
C5_Witness ==
    /\ output.op = "modify"
    /\ input.nick = None /\ input.mute = Bool(FALSE) /\ input.roles = List(<<>>)
    /\ input.deaf = MISSING /\ input.channel_id = MISSING
    /\ input.communication_disabled_until = MISSING
    /\ input.reason = Str("spam")
    /\ DOMAIN output.r.obj.kwargs.payload.v = {"nick", "mute", "roles"}

\* The payload key each parameter of send fills.
SendKey ==
    [content |-> "content", tts |-> "tts", files |-> "attachments", embeds |-> "embeds",
     components |-> "components", allowed_mentions |-> "allowed_mentions"]

\* The value send puts in the payload for a parameter left unset.
SendDefault ==
    [content |-> Str(""), tts |-> Bool(FALSE), files |-> List(<<>>), embeds |-> List(<<>>),
     components |-> List(<<>>), allowed_mentions |-> EmptyDict]

\* C6 as stated: a parameter of send left at the unset marker has no key in the
\* payload.
C6_UnsetExcluded ==
    output.op = "send" =>
        \A p \in DOMAIN SendKey :
            input[p] = MISSING => SendKey[p] \notin DOMAIN output.r.obj.kwargs.payload.v

\* C6 as amended: the payload of send always has the six keys; a parameter left at
\* the unset marker fills its key with the empty default, a supplied content, tts or
\* allowed_mentions is passed on as given, and the marker is never a payload value.
C6_UnsetDefaulted ==
    output.op = "send" =>
        LET payload == output.r.obj.kwargs.payload.v IN
        /\ output.r.ok
        /\ DOMAIN payload = {SendKey[p] : p \in DOMAIN SendKey}
        /\ \A p \in DOMAIN SendKey :
              /\ input[p] = MISSING => payload[SendKey[p]] = SendDefault[p]
              /\ payload[SendKey[p]] # MISSING
        /\ \A p \in {"content", "tts", "allowed_mentions"} :
              input[p] # MISSING => payload[SendKey[p]] = input[p]

\* send was called with every parameter left unset.
C6_Witness ==
    /\ output.op = "send"
    /\ \A p \in DOMAIN SendKey : input[p] = MISSING
    /\ output.r.obj.kwargs.payload.v.content = Str("")

\* The avatar on the wire, and the avatar of the user on the wire.
WireAvatar(raw) == IF "avatar" \in DOMAIN raw THEN raw.avatar ELSE None
WireUserAvatar(raw) ==
    IF "user" \in DOMAIN raw /\ "avatar" \in DOMAIN raw.user.v THEN raw.user.v.avatar ELSE None

\* C10 as stated: avatar is the wire avatar whenever that is not null, and the
\* user's avatar, or null without a user, exactly when it is null.
C10_AvatarFallbackOnNull ==
    output.op = "avatar" =>
        /\ output.r.ok
        /\ output.r.obj = IF WireAvatar(input.raw) # None THEN WireAvatar(input.raw)
                          ELSE WireUserAvatar(input.raw)

\* C10 as amended: avatar is the wire avatar whenever that is neither null nor
\* empty, and the user's avatar, or null without a user, otherwise.
C10_AvatarFallbackOnFalsy ==
    output.op = "avatar" =>
        /\ output.r.ok
        /\ output.r.obj = IF WireAvatar(input.raw) \notin {None, Str("")}
                          THEN WireAvatar(input.raw)
                          ELSE WireUserAvatar(input.raw)

\* The avatar was read from a Member whose wire avatar is null and whose user has one.
C10_Witness ==
    /\ output.op = "avatar"
    /\ WireAvatar(input.raw) = None
    /\ "avatar" \in DOMAIN input.raw
    /\ WireUserAvatar(input.raw) = Str("ua")
    /\ output.r = Ok(Str("ua"))

---------------------------------------------------------------------------
(* Construction of Invites and Components, and the Invite's cache-resolved
   properties: SpecObjects *)

ChannelIds == {20, 21}
UserIds == {7, 8}

\* Wire data of an Invite: the channel as an id or as an object, the inviter absent
\* or an object, the target user absent, null or an id, the target type absent,
\* null, a known variant or an unknown integer.
InviteChannelParts == {[channel_id |-> Str("20")], [channel |-> Dict([id |-> Str("21")])]}
InviteInviterParts == {<<>>, [inviter |-> Dict([id |-> Str("7"), username |-> Str("bob")])]}
InviteTargetUserParts == {<<>>, [target_user_id |-> None], [target_user_id |-> Str("8")]}
InviteTargetTypeParts ==
    {<<>>, [target_type |-> None], [target_type |-> PyInt(1)], [target_type |-> PyInt(99)]}

InviteInputs ==
    {[kind |-> "invite", raw |-> [code |-> Str("abc"), uses |-> PyInt(3)] @@ ch @@ inv @@ tu @@ tt] :
        ch \in InviteChannelParts, inv \in InviteInviterParts,
        tu \in InviteTargetUserParts, tt \in InviteTargetTypeParts}

\* Keyword arguments of a Component: the type a known variant or an unknown integer.
ComponentInputs ==
    {[kind |-> "component", raw |-> [type |-> PyInt(ty), custom_id |-> Str("c1")] @@ lb] :
        ty \in {1, 2, 3, 99}, lb \in {<<>>, [label |-> Str("press")]}}

\* Keyword arguments of a SelectMenu, a Button and an ActionRow: without a "type", with
\* the type of the class, with the type of another class, with an unknown type.
TypeParts == {<<>>} \cup {[type |-> PyInt(ty)] : ty \in {1, 2, 3, 99}}
StyleParts ==
    {<<>>, [style |-> [t |-> "ButtonStyle", v |-> 1]], [style |-> [t |-> "ButtonStyle", v |-> 4]],
     [style |-> PyInt(1)]}
SelectMenuInputs ==
    {[kind |-> "select", raw |-> [custom_id |-> Str("c1")] @@ ty @@ ph] :
        ty \in TypeParts, ph \in {<<>>, [placeholder |-> Str("pick")]}}
ButtonInputs ==
    {[kind |-> "button", raw |-> [label |-> Str("press")] @@ ty @@ st] :
        ty \in TypeParts, st \in StyleParts}
ActionRowInputs ==
    {[kind |-> "row", raw |-> ty @@ co] :
        ty \in TypeParts, co \in {<<>>, [components |-> List(<<Button1>>)]}}

\* The enum-typed field of the input holds an integer without a variant.
UnknownEnumInput ==
    \/ /\ input.kind = "invite"
       /\ "target_type" \in DOMAIN input.raw
       /\ input.raw.target_type.t = "int"
       /\ input.raw.target_type.v \notin EnumMembers("InviteTargetTypes")
    \/ /\ input.kind = "component"
       /\ input.raw.type.v \notin EnumMembers("ComponentType")

InitObjects ==
    /\ input \in InviteInputs \cup ComponentInputs \cup SelectMenuInputs \cup ButtonInputs
                \cup ActionRowInputs
    /\ output = NoOutput
    /\ ctx \in Clients
    /\ invite = None
    /\ cache \in [channels : SUBSET ChannelIds, users : {{}, {8}}]
    /\ member = MemberNew(RawMember0, ctx).obj
    /\ tasks = [tk \in Tasks |-> Idle]
    /\ started = 0
    /\ ncalls = 0
    /\ lastBuilt = None

\* Invite.from_dict(data, client): the inviter is placed in the cache, then the
\* Invite is built.
ConstructInvite ==
    /\ input.kind = "invite"
    /\ output = NoOutput
    /\ LET r == InviteNew(input.raw, ctx) IN
       /\ output' = [op |-> "construct", r |-> r]
       /\ invite' = IF r.ok THEN r.obj ELSE invite
    /\ cache' = ProcessDictPlaces(input.raw, cache)
    /\ UNCHANGED <<member, tasks, started, ncalls, lastBuilt, ctx, input>>

\* Component(**kwargs)
ConstructComponent ==
    /\ input.kind = "component"
    /\ output = NoOutput
    /\ output' = [op |-> "construct", r |-> ComponentNew(input.raw)]
    /\ UNCHANGED <<member, invite, tasks, started, ncalls, lastBuilt, cache, ctx, input>>

\* SelectMenu(**kwargs)
ConstructSelectMenu ==
    /\ input.kind = "select"
    /\ output = NoOutput
    /\ output' = [op |-> "construct", r |-> SelectMenuNew(input.raw)]
    /\ UNCHANGED <<member, invite, tasks, started, ncalls, lastBuilt, cache, ctx, input>>

\* Button(**kwargs)
ConstructButton ==
    /\ input.kind = "button"
    /\ output = NoOutput
    /\ output' = [op |-> "construct", r |-> ButtonNew(input.raw)]
    /\ UNCHANGED <<member, invite, tasks, started, ncalls, lastBuilt, cache, ctx, input>>

\* ActionRow(**kwargs)
ConstructActionRow ==
    /\ input.kind = "row"
    /\ output = NoOutput
    /\ output' = [op |-> "construct", r |-> ActionRowNew(input.raw)]
    /\ UNCHANGED <<member, invite, tasks, started, ncalls, lastBuilt, cache, ctx, input>>

\* The gateway makes an entity resident in the cache.
CachePlace(kind, id) ==
    /\ cache' = [cache EXCEPT ![kind] = @ \cup {id}]
    /\ cache' # cache
    /\ UNCHANGED <<member, invite, tasks, started, ncalls, lastBuilt, ctx, input, output>>

\* The cache drops an entity.
CacheEvict(kind, id) ==
    /\ cache' = [cache EXCEPT ![kind] = @ \ {id}]
    /\ cache' # cache
    /\ UNCHANGED <<member, invite, tasks, started, ncalls, lastBuilt, ctx, input, output>>

\* invite.channel is read.
ReadChannel ==
    /\ invite # None
    /\ output' = [op |-> "channel", r |-> InviteChannel(invite, cache)]
    /\ UNCHANGED <<member, invite, tasks, started, ncalls, lastBuilt, cache, ctx, input>>

\* invite.inviter is read.
ReadInviter ==
    /\ invite # None
    /\ output' = [op |-> "inviter", r |-> InviteInviter(invite, cache)]
    /\ UNCHANGED <<member, invite, tasks, started, ncalls, lastBuilt, cache, ctx, input>>

\* invite.target_user is read.
ReadTargetUser ==
    /\ invite # None
    /\ output' = [op |-> "target_user", r |-> InviteTargetUser(invite, cache)]
    /\ UNCHANGED <<member, invite, tasks, started, ncalls, lastBuilt, cache, ctx, input>>

NextObjects ==
    \/ ConstructInvite
    \/ ConstructComponent
    \/ ConstructSelectMenu
    \/ ConstructButton
    \/ ConstructActionRow
    \/ \E id \in ChannelIds : CachePlace("channels", id)
    \/ \E id \in UserIds : CachePlace("users", id)
    \/ \E id \in ChannelIds : CacheEvict("channels", id)
    \/ \E id \in UserIds : CacheEvict("users", id)
    \/ ReadChannel
    \/ ReadInviter
    \/ ReadTargetUser

SpecObjects == InitObjects /\ [][NextObjects]_vars

\* C7: constructing an Invite or a Component whose enum-typed field receives an
\* integer without a variant does not raise, populates the other fields and keeps
\* the field readable as that integer.
C7_UnknownEnumKept ==
    (output.op = "construct" /\ UnknownEnumInput) =>
        /\ output.r.ok
        /\ IF input.kind = "invite"
           THEN /\ output.r.obj.target_type = input.raw.target_type
                /\ output.r.obj.code = input.raw.code
           ELSE /\ output.r.obj.type = input.raw.type
                /\ output.r.obj.custom_id = input.raw.custom_id

\* The identifier a relational property resolves, and the store it resolves it in.
PropertyId(prop) ==
    CASE prop = "channel" -> invite._channel_id
      [] prop = "inviter" -> invite._inviter_id
      [] prop = "target_user" -> invite._target_user_id
PropertyStore(prop) == IF prop = "channel" THEN cache.channels ELSE cache.users

C8_WitnessChannel ==
    /\ invite # None
    /\ invite._client # None
    /\ output.op = "channel"
    /\ invite._channel_id.v \notin cache.channels
    /\ output.r = Ok(None)

\* The type each class documents as fixed.
FixedType == [select |-> 3, button |-> 2, row |-> 1]

\* A SelectMenu, a Button or an ActionRow has been constructed.
FixedTypeBuilt ==
    /\ output.op = "construct"
    /\ input.kind \in DOMAIN FixedType
    /\ output.r.ok

\* C14: whatever keyword arguments a SelectMenu, a Button or an ActionRow is
\* constructed with, its type attribute is the fixed type of its class (3, 2, 1) and
\* its _json mapping has a "type" entry with that same value.
C14_FixedTypeInJson ==
    FixedTypeBuilt =>
        /\ output.r.obj.type.v = FixedType[input.kind]
        /\ "type" \in DOMAIN output.r.obj._json.v
        /\ output.r.obj._json.v.type = PyInt(FixedType[input.kind])

\* What holds of the three classes: the type attribute is the fixed one, and the
\* _json entry of a SelectMenu and of a Button is too.
FixedTypeAttribute ==
    FixedTypeBuilt =>
        /\ output.r.obj.type.v = FixedType[input.kind]
        /\ input.kind # "row"
             => /\ "type" \in DOMAIN output.r.obj._json.v
                /\ output.r.obj._json.v.type = PyInt(FixedType[input.kind])

\* The _json mapping of an ActionRow is the keyword arguments it was constructed with.
ActionRowJsonIsKwargs ==
    (FixedTypeBuilt /\ input.kind = "row") => output.r.obj._json = Dict(input.raw)

====
